---------------------------- MODULE Spec2Model ----------------------------
(***************************************************************************)
(* FreshLense: the versioning engine (versioning_service.py), the manual  *)
(* crawl route (main.py, database.py) and the monitoring scheduler         *)
(* (scheduler.py), as a state machine over the page, version and           *)
(* change-log collections.                                                 *)
(*                                                                         *)
(* Texts are sequences of one-character strings.  Scores are integers in   *)
(* thousandths (the code rounds a stored score to three places); an        *)
(* unrounded score is a fraction [num, den].  Ids are positive integers,   *)
(* NoId (0) is None; times are naturals, NoTime (-1) is None.              *)
(***************************************************************************)
EXTENDS Integers, Sequences, FiniteSets, TLC

VARIABLES
    now,        \* datetime.utcnow(), in minutes
    pages,      \* pages_collection: page id -> document
    versions,   \* versions_collection: the documents, in timestamp order
    changes,    \* changes_collection: the documents, in insertion order
    notified,   \* the calls of _send_change_notification: the version, and
                \* whether resend.Emails.send sent the message
    nextId,     \* the next ObjectId of versions_collection
    sched,      \* MonitoringScheduler: running, the loop task, cleanup_counter
    batch,      \* the page checks of the tick in progress: page id -> the
                \* task's state, and once it has ended how it ended
    lastPrune,  \* the last direct prune_old_versions call: page, cap, input
    analysed,   \* the last direct analyze_change_significance call: the
                \* texts, the config and what each service returned
    compared,   \* the last direct compare_text call: the texts and the
                \* changes returned
    writers,    \* the save_version_if_significant call in progress in each
                \* scheduler instance, when several share the database
    env         \* what the environment may still do: pages it creates, manual
                \* crawls, deletions, start() calls, store failures

vars == <<now, pages, versions, changes, notified, nextId, sched, batch,
          lastPrune, analysed, compared, writers, env>>

----------------------------------------------------------------------------
(* Bounds of the model.                                                    *)

\* Tracked pages are 1..MaxPages.
MaxPages == 2
\* The clock stops advancing at MaxTime.
MaxTime == 2
\* At most MaxInserts versions are ever inserted.
MaxInserts == 3
\* start() is called at most MaxStarts times.
MaxStarts == 2
\* At most MaxCrawls manual crawls are requested.
MaxCrawls == 1
\* Scheduler instances (processes) that share the database.
MaxInstances == 2
\* max_versions_kept ranges over 1..MaxCap (models.py:292 requires >= 1).
MaxCap == 2
\* The stores prune_old_versions is called on directly hold at most MaxLen
\* versions.
MaxLen == 4

NoId == 0
NoTime == 0 - 1

PageIds == 1..MaxPages

Min(a, b) == IF a <= b THEN a ELSE b
Max(a, b) == IF a >= b THEN a ELSE b
SeqToSet(s) == { s[i] : i \in 1..Len(s) }
Reverse(s) == [i \in 1..Len(s) |-> s[Len(s) + 1 - i]]

----------------------------------------------------------------------------
(* Texts: str.split, str.splitlines, str.lower, `in`.                      *)

WhiteSpace == {" ", "\t", "\n", "\r"}
LineBreaks == {"\n", "\r"}

UpperCase == <<"A","B","C","D","E","F","G","H","I","J","K","L","M",
               "N","O","P","Q","R","S","T","U","V","W","X","Y","Z">>
LowerCase == <<"a","b","c","d","e","f","g","h","i","j","k","l","m",
               "n","o","p","q","r","s","t","u","v","w","x","y","z">>

LowerChar(c) ==
    IF \E i \in 1..Len(UpperCase) : UpperCase[i] = c
    THEN LowerCase[CHOOSE i \in 1..Len(UpperCase) : UpperCase[i] = c]
    ELSE c

Lower(t) == [i \in 1..Len(t) |-> LowerChar(t[i])]

\* keyword in text
Contains(t, k) ==
    \E i \in 1..(Len(t) - Len(k) + 1) : SubSeq(t, i, i + Len(k) - 1) = k

RECURSIVE SplitAcc(_, _, _, _)
SplitAcc(t, i, cur, acc) ==
    IF i > Len(t)
    THEN IF cur = <<>> THEN acc ELSE Append(acc, cur)
    ELSE IF t[i] \in WhiteSpace
         THEN SplitAcc(t, i + 1, <<>>, IF cur = <<>> THEN acc ELSE Append(acc, cur))
         ELSE SplitAcc(t, i + 1, Append(cur, t[i]), acc)

\* text.split()
Split(t) == SplitAcc(t, 1, <<>>, <<>>)

RECURSIVE SplitLinesAcc(_, _, _, _)
SplitLinesAcc(t, i, cur, acc) ==
    IF i > Len(t)
    THEN IF cur = <<>> THEN acc ELSE Append(acc, cur)
    ELSE IF t[i] = "\r" /\ i < Len(t) /\ t[i + 1] = "\n"
         THEN SplitLinesAcc(t, i + 2, <<>>, Append(acc, cur))
         ELSE IF t[i] \in LineBreaks
              THEN SplitLinesAcc(t, i + 1, <<>>, Append(acc, cur))
              ELSE SplitLinesAcc(t, i + 1, Append(cur, t[i]), acc)

\* text.splitlines()
SplitLines(t) == SplitLinesAcc(t, 1, <<>>, <<>>)

----------------------------------------------------------------------------
(* difflib.SequenceMatcher(None, a, b): the matching blocks and ratio().   *)
(* No element is junk (isjunk is None and the texts are under 200 long).   *)

RECURSIVE CommonLen(_, _, _, _, _, _)
CommonLen(a, b, i, j, ahi, bhi) ==
    IF i <= ahi /\ j <= bhi /\ a[i] = b[j]
    THEN 1 + CommonLen(a, b, i + 1, j + 1, ahi, bhi)
    ELSE 0

\* find_longest_match over a[alo..ahi], b[blo..bhi] (1-based, inclusive): the
\* longest block, of those the one starting earliest in a, of those the one
\* starting earliest in b.
FindLongestMatch(a, b, alo, ahi, blo, bhi) ==
    LET cand == { <<i, j>> \in (alo..ahi) \X (blo..bhi) : a[i] = b[j] }
        size(c) == CommonLen(a, b, c[1], c[2], ahi, bhi)
        best == CHOOSE c \in cand :
                    \A d \in cand :
                        \/ size(c) > size(d)
                        \/ /\ size(c) = size(d)
                           /\ \/ c[1] < d[1]
                              \/ c[1] = d[1] /\ c[2] <= d[2]
    IN  IF cand = {} THEN [i |-> alo, j |-> blo, k |-> 0]
        ELSE [i |-> best[1], j |-> best[2], k |-> size(best)]

RECURSIVE MatchedSize(_, _, _, _, _, _)
\* The total size of get_matching_blocks() within the two ranges.
MatchedSize(a, b, alo, ahi, blo, bhi) ==
    IF alo > ahi \/ blo > bhi THEN 0
    ELSE LET m == FindLongestMatch(a, b, alo, ahi, blo, bhi)
         IN  IF m.k = 0 THEN 0
             ELSE m.k + MatchedSize(a, b, alo, m.i - 1, blo, m.j - 1)
                      + MatchedSize(a, b, m.i + m.k, ahi, m.j + m.k, bhi)

Matches(a, b) == MatchedSize(a, b, 1, Len(a), 1, Len(b))

\* get_opcodes() yields an opcode whose tag is not 'equal' exactly when the
\* two sequences differ.
HasNonEqualOpcode(a, b) == a # b

----------------------------------------------------------------------------
(* Fingerprints: hashlib.md5 and hashlib.sha256 of the UTF-8 bytes, as     *)
(* abstract digests.  MD5 is not collision resistant: Md5Collision is a    *)
(* pair of different texts with one MD5 digest, each written as a single   *)
(* symbol.  No other two texts of the model collide, and none under        *)
(* SHA-256.                                                                *)

Md5Collision == { <<"M0">>, <<"M1">> }

calculate_quick_checksum(t) ==
    IF t \in Md5Collision THEN <<"md5", <<"M">>>> ELSE <<"md5", t>>
calculate_content_hash(t) == <<"sha256", t>>

----------------------------------------------------------------------------
(* DiffService.calculate_change_metrics, as far as the versioning service  *)
(* reads its result.                                                       *)

important_keywords ==
    { <<"s","e","c","u","r","i","t","y">>,
      <<"v","u","l","n","e","r","a","b","i","l","i","t","y">>,
      <<"u","p","d","a","t","e">>,
      <<"c","r","i","t","i","c","a","l">>,
      <<"b","u","g">>,
      <<"f","i","x">>,
      <<"r","e","l","e","a","s","e">>,
      <<"v","e","r","s","i","o","n">>,
      <<"d","e","p","r","e","c","a","t","e","d">>,
      <<"b","r","e","a","k","i","n","g">>,
      <<"i","m","p","o","r","t","a","n","t">>,
      <<"u","r","g","e","n","t">>,
      <<"w","a","r","n","i","n","g">>,
      <<"a","l","e","r","t">>,
      <<"p","a","t","c","h">>,
      <<"e","x","p","l","o","i","t">>,
      <<"r","i","s","k">>,
      <<"c","v","e","-">>,
      <<"m","i","t","i","g","a","t","i","o","n">>,
      <<"w","o","r","k","a","r","o","u","n","d">>,
      <<"u","p","g","r","a","d","e">>,
      <<"d","o","w","n","g","r","a","d","e">>,
      <<"c","o","m","p","a","t","i","b","i","l","i","t","y">>,
      <<"p","e","r","f","o","r","m","a","n","c","e">>,
      <<"m","e","m","o","r","y">>,
      <<"c","p","u">>,
      <<"s","t","o","r","a","g","e">>,
      <<"l","a","t","e","n","c","y">>,
      <<"t","h","r","o","u","g","h","p","u","t">>,
      <<"r","e","g","r","e","s","s","i","o","n">>,
      <<"f","e","a","t","u","r","e">>,
      <<"a","p","i">> }

\* The generator expressions of lines 354-360 read the unbound name `size`
\* for every opcode that is not 'equal': NameError as soon as the word
\* lists or the line lists differ.
MetricsRaise(old, new) ==
    \/ HasNonEqualOpcode(Split(old), Split(new))
    \/ HasNonEqualOpcode(SplitLines(old), SplitLines(new))

\* The metrics of the word lists wo, wn and the line lists lo, ln.
MetricsOf(old, new, wo, wn, lo, ln) ==
    [ matched         |-> 2 * Matches(old, new),
      total           |-> Len(old) + Len(new),
      words_added     |-> Cardinality(SeqToSet(wn) \ SeqToSet(wo)),
      words_removed   |-> Cardinality(SeqToSet(wo) \ SeqToSet(wn)),
      total_words_old |-> Len(wo),
      total_words_new |-> Len(wn),
      lines_added     |-> IF Len(ln) > Len(lo) THEN Len(ln) - Len(lo) ELSE 0,
      lines_removed   |-> IF Len(lo) > Len(ln) THEN Len(lo) - Len(ln) ELSE 0 ]

\* The metrics of a call that returns.  similarity is matched/total, the
\* fraction 2*M/T of SequenceMatcher.ratio() (1 when both are empty).
calculate_change_metrics(old, new) ==
    MetricsOf(old, new, Split(old), Split(new), SplitLines(old), SplitLines(new))

----------------------------------------------------------------------------
(* VersioningService.analyze_change_significance.                          *)

\* The defaults of lines 36-42, which are also the versioning_config every
\* page is created with (database.py:597-604), in thousandths.
min_change_threshold == 50
keep_significant_threshold == 300

\* The keys of a page's versioning_config the engine reads.
Config(cap) ==
    [ min_change_threshold         |-> min_change_threshold,
      require_significant_keywords |-> TRUE,
      check_structural_changes     |-> TRUE,
      max_versions_kept            |-> cap ]

KeywordChanges(old, new) ==
    Cardinality({ k \in important_keywords :
                    Contains(Lower(old), k) # Contains(Lower(new), k) })

\* The same sum without the min(..., 1.0) of lines 93, 100 and 108 and the
\* min(..., 0.1) of line 137.
WeightedScore_Unclamped(m, old_lines, keyword_changes, config) ==
    LET T  == IF m.total = 0 THEN 1 ELSE m.total
        cn == IF m.total = 0 THEN 0 ELSE m.total - m.matched
        W  == Max(Max(m.total_words_old, m.total_words_new), 1)
        L  == Max(old_lines, 1)
        d  == m.lines_added - m.lines_removed
        ln == IF config.check_structural_changes
              THEN (IF d < 0 THEN 0 - d ELSE d) ELSE 0
        kc == IF config.require_significant_keywords
              THEN 5 * keyword_changes ELSE 0
    IN  [ num |-> 40 * cn * W * L + 30 * (m.words_added + m.words_removed) * T * L
                  + 20 * ln * T * W + kc * T * W * L,
          den |-> 100 * T * W * L ]

\* The weighted sum of lines 88-138 as the fraction num/den: 0.4 of the
\* character change, 0.3 of the word change, 0.2 of the line change, each
\* capped at 1, plus 0.05 per keyword change capped at 0.1.  m is the
\* metrics, old_lines is len(old_text.splitlines()).
WeightedScore(m, old_lines, keyword_changes, config) ==
    LET T  == IF m.total = 0 THEN 1 ELSE m.total
        cn == IF m.total = 0 THEN 0 ELSE m.total - m.matched
        W  == Max(Max(m.total_words_old, m.total_words_new), 1)
        wn == Min(m.words_added + m.words_removed, W)
        L  == Max(old_lines, 1)
        d  == m.lines_added - m.lines_removed
        ln == IF config.check_structural_changes
              THEN Min(IF d < 0 THEN 0 - d ELSE d, L) ELSE 0
        kc == IF config.require_significant_keywords
              THEN Min(5 * keyword_changes, 10) ELSE 0
    IN  [ num |-> 40 * cn * W * L + 30 * wn * T * L + 20 * ln * T * W
                  + kc * T * W * L,
          den |-> 100 * T * W * L ]

ScoreFraction(old, new, config) ==
    WeightedScore(calculate_change_metrics(old, new), Len(SplitLines(old)),
                  KeywordChanges(old, new), config)

\* round(score, 3), in thousandths.
Round3(f) == (2000 * f.num + f.den) \div (2 * f.den)

\* score >= min_change_threshold, on the unrounded score (line 141).
StoreDecision(f, config) == 1000 * f.num >= config.min_change_threshold * f.den

\* The decision and the returned score of an unrounded score (lines 141-146).
Decision(f, config) ==
    [raised |-> FALSE, store |-> StoreDecision(f, config), score |-> Round3(f),
     reason |-> "Detailed"]

\* Case 1, `not old_text and new_text` (line 47).
IsFirstVersion_Never(old, new) == FALSE
IsFirstVersion_EmptyOld(old, new) == old = <<>>
IsFirstVersion(old, new) == old = <<>> /\ new # <<>>

\* The result: raised (the call ended in an exception), store, score, reason.
analyze_change_significance(old, new, config) ==
    IF IsFirstVersion(old, new)
    THEN [raised |-> FALSE, store |-> TRUE, score |-> 1000, reason |-> "First version"]
    ELSE IF old = new
    THEN [raised |-> FALSE, store |-> FALSE, score |-> 0, reason |-> "Identical content"]
    ELSE IF calculate_quick_checksum(old) = calculate_quick_checksum(new)
    THEN [raised |-> FALSE, store |-> FALSE, score |-> 0, reason |-> "Identical checksum"]
    ELSE IF MetricsRaise(old, new)
    THEN [raised |-> TRUE, store |-> FALSE, score |-> 0, reason |-> "NameError"]
    ELSE Decision(ScoreFraction(old, new, config), config)

----------------------------------------------------------------------------
(* DiffService.analyze_change_significance and its score.                  *)

\* _calculate_significance_score (lines 440-474) as the fraction num/den,
\* of a similarity 1 - cn/T, wc changed words of W, lc changed lines of L
\* and kc keyword changes: each component is capped, then the sum.
calculate_significance_score(cn, T, wc, W, lc, L, kc) ==
    LET num == 30 * cn * W * L + 40 * Min(wc, W) * T * L
               + 20 * Min(lc, L) * T * W + Min(kc, 10) * T * W * L
               + 5 * Min(lc, 2 * L) * T * W
        den == 100 * T * W * L
    IN  [num |-> Min(num, den), den |-> den]

\* The significance_score of a calculate_change_metrics call that returns:
\* the sums of lines 354-360 are then over no opcode, so 0.
SignificanceScore(old, new) ==
    LET m == calculate_change_metrics(old, new)
        T == IF m.total = 0 THEN 1 ELSE m.total
        cn == IF m.total = 0 THEN 0 ELSE m.total - m.matched
        W == Max(Max(m.total_words_old, m.total_words_new), 1)
        L == Max(Max(Len(SplitLines(old)), Len(SplitLines(new))), 1)
    IN  calculate_significance_score(cn, T, 0, W, 0, L, KeywordChanges(old, new))

\* A score that is not computed from metrics, as a fraction.
Whole(n) == [num |-> n, den |-> 1]

\* DiffService.analyze_change_significance (lines 505-575): raised, store,
\* the score as a fraction, reason.
DiffService_analyze_change_significance(old, new, min_threshold) ==
    IF old = <<>> /\ new # <<>>
    THEN [raised |-> FALSE, store |-> TRUE, score |-> Whole(1), reason |-> "First version"]
    ELSE IF old = new
    THEN [raised |-> FALSE, store |-> FALSE, score |-> Whole(0), reason |-> "Identical content"]
    ELSE IF calculate_quick_checksum(old) = calculate_quick_checksum(new)
    THEN [raised |-> FALSE, store |-> FALSE, score |-> Whole(0), reason |-> "Identical checksum"]
    ELSE IF MetricsRaise(old, new)
    THEN [raised |-> TRUE, store |-> FALSE, score |-> Whole(0), reason |-> "NameError"]
    ELSE LET f == SignificanceScore(old, new)
         IN  [raised |-> FALSE, store |-> 1000 * f.num >= min_threshold * f.den,
              score |-> f, reason |-> "Detailed"]

----------------------------------------------------------------------------
(* DiffService.compare_text: the changes between two texts, line by line.  *)
(* Positions are counted from 0 and ranges exclude their end, as in the    *)
(* code.                                                                   *)

RECURSIVE SplitKeepAcc(_, _, _, _)
SplitKeepAcc(t, i, cur, acc) ==
    IF i > Len(t)
    THEN IF cur = <<>> THEN acc ELSE Append(acc, cur)
    ELSE IF t[i] = "\r" /\ i < Len(t) /\ t[i + 1] = "\n"
         THEN SplitKeepAcc(t, i + 2, <<>>, Append(acc, cur \o <<"\r", "\n">>))
         ELSE IF t[i] \in LineBreaks
              THEN SplitKeepAcc(t, i + 1, <<>>, Append(acc, Append(cur, t[i])))
              ELSE SplitKeepAcc(t, i + 1, Append(cur, t[i]), acc)

\* text.splitlines(keepends=True)
SplitLinesKeepEnds_Dropped(t) == SplitLines(t)
SplitLinesKeepEnds(t) == SplitKeepAcc(t, 1, <<>>, <<>>)

RECURSIVE Join(_)
\* ''.join(lines)
Join(lines) == IF lines = <<>> THEN <<>> ELSE Head(lines) \o Join(Tail(lines))

\* seq[i1:i2]
Slice(seq, i1, i2) == SubSeq(seq, i1 + 1, i2)

RECURSIVE MatchingBlocksIn(_, _, _, _, _, _)
\* The matching blocks within the two ranges, in order: the longest match,
\* with those to its left before it and those to its right after it.
MatchingBlocksIn(a, b, alo, ahi, blo, bhi) ==
    IF alo > ahi \/ blo > bhi THEN <<>>
    ELSE LET m == FindLongestMatch(a, b, alo, ahi, blo, bhi)
         IN  IF m.k = 0 THEN <<>>
             ELSE MatchingBlocksIn(a, b, alo, m.i - 1, blo, m.j - 1)
                  \o <<[i |-> m.i - 1, j |-> m.j - 1, k |-> m.k]>>
                  \o MatchingBlocksIn(a, b, m.i + m.k, ahi, m.j + m.k, bhi)

RECURSIVE CollapseBlocks(_, _, _)
\* Adjacent blocks become one.
CollapseBlocks(blocks, n, acc) ==
    IF n > Len(blocks) THEN acc
    ELSE LET last == acc[Len(acc)]
         IN  IF /\ acc # <<>>
                /\ last.i + last.k = blocks[n].i
                /\ last.j + last.k = blocks[n].j
             THEN CollapseBlocks(blocks, n + 1,
                                 [acc EXCEPT ![Len(acc)].k = last.k + blocks[n].k])
             ELSE CollapseBlocks(blocks, n + 1, Append(acc, blocks[n]))

\* SequenceMatcher.get_matching_blocks(), with its closing empty block.
get_matching_blocks(a, b) ==
    Append(CollapseBlocks(MatchingBlocksIn(a, b, 1, Len(a), 1, Len(b)), 1, <<>>),
           [i |-> Len(a), j |-> Len(b), k |-> 0])

Opcode(tag, i1, i2, j1, j2) == [tag |-> tag, i1 |-> i1, i2 |-> i2, j1 |-> j1, j2 |-> j2]

RECURSIVE OpcodesFrom(_, _, _, _)
OpcodesFrom(blocks, n, i, j) ==
    IF n > Len(blocks) THEN <<>>
    ELSE LET ai == blocks[n].i
             bj == blocks[n].j
             size == blocks[n].k
             gap == IF i < ai /\ j < bj THEN <<Opcode("replace", i, ai, j, bj)>>
                    ELSE IF i < ai THEN <<Opcode("delete", i, ai, j, bj)>>
                    ELSE IF j < bj THEN <<Opcode("insert", i, ai, j, bj)>>
                    ELSE <<>>
             equal == IF size > 0
                      THEN <<Opcode("equal", ai, ai + size, bj, bj + size)>>
                      ELSE <<>>
         IN  gap \o equal \o OpcodesFrom(blocks, n + 1, ai + size, bj + size)

\* SequenceMatcher(None, a, b).get_opcodes()
get_opcodes(a, b) == OpcodesFrom(get_matching_blocks(a, b), 1, 0, 0)

\* The opcodes compare_text appends a change for (lines 67, 86, 100).
IsChange_Always(tag) == TRUE
IsChange(tag) == tag \in {"replace", "delete", "insert"}

\* A ContentChange, as far as its content and its place go.
ContentChange(type, old_content, new_content, line_range_old, line_range_new) ==
    [ change_type |-> type, old_content |-> old_content,
      new_content |-> new_content, line_range_old |-> line_range_old,
      line_range_new |-> line_range_new ]

\* The change of an opcode (lines 67-113).
ChangeOf(op, old_lines, new_lines) ==
    LET old_chunk_str == Join(Slice(old_lines, op.i1, op.i2))
        new_chunk_str == Join(Slice(new_lines, op.j1, op.j2))
    IN  CASE op.tag = "delete" ->
                ContentChange("removed", old_chunk_str, <<>>,
                              <<op.i1, op.i2>>, <<op.j1, op.j1>>)
          [] op.tag = "insert" ->
                ContentChange("added", <<>>, new_chunk_str,
                              <<op.i1, op.i1>>, <<op.j1, op.j2>>)
          [] OTHER ->
                ContentChange("modified", old_chunk_str, new_chunk_str,
                              <<op.i1, op.i2>>, <<op.j1, op.j2>>)

RECURSIVE ChangesFrom(_, _, _, _)
ChangesFrom(ops, n, old_lines, new_lines) ==
    IF n > Len(ops) THEN <<>>
    ELSE (IF IsChange(ops[n].tag)
          THEN <<ChangeOf(ops[n], old_lines, new_lines)>> ELSE <<>>)
         \o ChangesFrom(ops, n + 1, old_lines, new_lines)

\* The changes of the line-by-line comparison (lines 44-116).
LineChanges(old_lines, new_lines) ==
    ChangesFrom(get_opcodes(old_lines, new_lines), 1, old_lines, new_lines)

compare_text(old_text, new_text) ==
    IF old_text = <<>> /\ new_text # <<>>
    THEN <<ContentChange("added", <<>>, new_text, <<0, 0>>,
                         <<0, Len(SplitLines(new_text))>>)>>
    ELSE IF old_text # <<>> /\ new_text = <<>>
    THEN <<ContentChange("removed", old_text, <<>>,
                         <<0, Len(SplitLines(old_text))>>, <<0, 0>>)>>
    ELSE LineChanges(SplitLinesKeepEnds(old_text), SplitLinesKeepEnds(new_text))

----------------------------------------------------------------------------
(* VersioningService.prune_old_versions.  A version document is            *)
(* [id, page, text, score, origin]; origin records which code inserted it. *)

\* versions_collection.find({"page_id": p}, sort=[("timestamp", -1)])
AllVersions(vs, p) == Reverse(SelectSeq(vs, LAMBDA v : v.page = p))

IsSignificant(v) == v.score >= keep_significant_threshold

\* "Always keep the oldest version" (keep_oldest is True).
KeepOldest_Skipped(all) == <<>>
KeepOldest(all) == IF all # <<>> THEN <<all[Len(all)].id>> ELSE <<>>

RECURSIVE KeepSignificantFrom(_, _, _)
KeepSignificantFrom(keep, all, i) ==
    IF i > Len(all) THEN keep
    ELSE KeepSignificantFrom(
             IF IsSignificant(all[i]) /\ all[i].id \notin SeqToSet(keep)
             THEN Append(keep, all[i].id) ELSE keep,
             all, i + 1)

\* "Keep versions with high significance scores", newest first.
KeepSignificant_None(keep, all) == keep
KeepSignificant(keep, all) == KeepSignificantFrom(keep, all, 1)

RECURSIVE TimeLoop(_, _, _, _, _)
\* for i in range(0, time_span, step), i counted from 0.
TimeLoop(keep, all, cap, i, step) ==
    IF i >= Len(all) \/ Len(keep) >= cap THEN keep
    ELSE TimeLoop(IF all[i + 1].id \notin SeqToSet(keep)
                  THEN Append(keep, all[i + 1].id) ELSE keep,
                  all, cap, i + step, step)

\* "Keep versions based on time distribution" (keep_time_based is True).
KeepTimeBased_None(keep, all, cap) == keep
KeepTimeBased(keep, all, cap) ==
    IF Len(keep) < cap
    THEN TimeLoop(keep, all, cap, 0, Max(1, Len(all) \div (cap - Len(keep))))
    ELSE keep

\* versions_to_keep[:max_versions_kept]
TruncateKeep_None(keep, cap) == keep
TruncateKeep(keep, cap) ==
    IF cap >= 0 THEN SubSeq(keep, 1, Min(cap, Len(keep)))
    ELSE SubSeq(keep, 1, Max(Len(keep) + cap, 0))

versions_to_keep(all, cap) ==
    TruncateKeep(KeepTimeBased(KeepSignificant(KeepOldest(all), all), all, cap), cap)

\* The collection after prune_old_versions(page_id, config).
prune_old_versions(vs, p, config) ==
    LET all  == AllVersions(vs, p)
        cap  == config.max_versions_kept
        keep == SeqToSet(versions_to_keep(all, cap))
    IN  IF Len(all) <= cap THEN vs
        ELSE SelectSeq(vs, LAMBDA v : v.page # p \/ v.id \in keep)

----------------------------------------------------------------------------
(* VersioningService.save_version_if_significant.                          *)

\* The texts a fetch can return: "a", "a\n" (the same words and lines as
\* "a") and "b".
Texts == { <<"a">>, <<"a", "\n">>, <<"b">> }

\* pages_collection.update_one({"_id": p}, {"$set": fields}): nothing is
\* matched when the page document is gone.
UpdatePage(pg, p, fields) ==
    IF pg[p].exists
    THEN [pg EXCEPT ![p] = [f \in DOMAIN pg[p] |->
                              IF f \in DOMAIN fields THEN fields[f] ELSE pg[p][f]]]
    ELSE pg

NewVersion(id, p, text, score, origin) ==
    [id |-> id, page |-> p, text |-> text, score |-> score, origin |-> origin]

\* The analysis of every pair of a stored and a fetched text, computed once.
\* The analysis reads the thresholds of the config, which every page shares.
StoredTexts == Texts \cup {<<>>}
Analysis ==
    [old \in StoredTexts |->
        [new \in Texts |-> analyze_change_significance(old, new, Config(1))]]

\* Where the store raises during a save: nowhere, at insert_one (line 205)
\* or at the update_one after it (line 209).
Faults == {"none", "insert", "update"}

\* The $set of the skip path (lines 179-182).
SkipFields_WithChange(t) == [last_checked |-> t, last_change_detected |-> t]
SkipFields(t) == [last_checked |-> t]

\* Lines 167-172: the text of the latest version, "" when there is none.
LatestContent(vs, p) ==
    IF AllVersions(vs, p) # <<>> THEN AllVersions(vs, p)[1].text ELSE <<>>

\* Lines 177-225, given the analysis.  The call's effect: the collections
\* after it, the id it returned (NoId for None), whether it raised, and the
\* id it inserted.
SaveAnalysed(analysis, vs, pg, p, new_content, config, id, t, fault) ==
    LET unchanged == [vs |-> vs, pg |-> pg, ret |-> NoId, raised |-> TRUE,
                      inserted |-> NoId]
        inserted == Append(vs, NewVersion(id, p, new_content, analysis.score, "pipeline"))
        updated  == UpdatePage(pg, p, [last_checked |-> t, last_change_detected |-> t,
                                       current_version_id |-> id])
    IN  IF analysis.raised THEN unchanged
        ELSE IF ~analysis.store
        THEN IF fault = "update" THEN unchanged
             ELSE [vs |-> vs, pg |-> UpdatePage(pg, p, SkipFields(t)),
                   ret |-> NoId, raised |-> FALSE, inserted |-> NoId]
        ELSE IF fault = "insert" THEN unchanged
        ELSE IF fault = "update"
        THEN [vs |-> inserted, pg |-> pg, ret |-> NoId, raised |-> TRUE,
              inserted |-> id]
        ELSE [vs |-> prune_old_versions(inserted, p, config), pg |-> updated,
              ret |-> id, raised |-> FALSE, inserted |-> id]

save_version_if_significant(vs, pg, p, new_content, config, id, t, fault) ==
    SaveAnalysed(Analysis[LatestContent(vs, p)][new_content],
                 vs, pg, p, new_content, config, id, t, fault)

----------------------------------------------------------------------------
(* The state after construction.                                           *)

NoPage ==
    [ created |-> FALSE, exists |-> FALSE, is_active |-> FALSE, interval |-> 1,
      cap |-> 1, last_checked |-> NoTime, last_change_detected |-> NoTime,
      current_version_id |-> NoId ]

NoPruneYet == [ page |-> NoId, cap |-> 0, before |-> <<>> ]

\* No direct compare_text call is made.
NotCompared == [ called |-> FALSE, old |-> <<>>, new |-> <<>> ]

\* No direct analyze_change_significance call is made.
NotAnalysed == [ called |-> FALSE, old |-> <<>>, new |-> <<>>, config |-> Config(1) ]

Idle == [p \in PageIds |-> "idle"]

\* MonitoringScheduler.__init__: not running, no task, cleanup_counter 0.
\* email_enabled is read from the environment once.  wake is when the
\* loop's sleep ends; loops counts the _run_scheduler tasks that have been
\* created and have not ended.
\* A run of _run_safe_cleanup_tasks: how each of its three steps ended.
NoCleanupYet == [mfa |-> "none", audit |-> "none", stats |-> "none"]

\* cycles counts the passes of the loop body that completed, cleanups the
\* calls of _run_safe_cleanup_tasks, and last_cleanup is the latest of them.
InitScheduler(email) ==
    [ running |-> FALSE, task |-> "none", cleanup_counter |-> 0,
      email_enabled |-> email, wake |-> 0, loops |-> 0,
      cycles |-> 0, cleanups |-> 0, last_cleanup |-> NoCleanupYet ]

\* The environments explored: one page with the whole API, or a batch of
\* pages left to the scheduler.
Environments ==
    { [pages |-> 1, crawls |-> MaxCrawls, deletes |-> TRUE,
       starts |-> MaxStarts, faults |-> FALSE],
      [pages |-> MaxPages, crawls |-> 0, deletes |-> FALSE,
       starts |-> 1, faults |-> FALSE] }

InitCommon ==
    /\ now = 0
    /\ pages = [p \in PageIds |-> NoPage]
    /\ versions = <<>>
    /\ changes = <<>>
    /\ notified = {}
    /\ nextId = 1
    /\ \E email \in BOOLEAN : sched = InitScheduler(email)
    /\ batch = Idle
    /\ lastPrune = NoPruneYet
    /\ analysed = NotAnalysed
    /\ compared = NotCompared

Init ==
    /\ InitCommon
    /\ writers = <<>>
    /\ env \in Environments

----------------------------------------------------------------------------
(* The API routes of main.py.                                              *)

\* At most MaxChanges change-log documents are written.
MaxChanges == 3

\* POST /api/pages -> create_tracked_page: ids are handed out in order.  A
\* page is checked every check_interval_minutes (here its id, so that pages
\* differ) and keeps max_versions_kept versions.
CreatePage(p) ==
    /\ ~pages[p].created
    /\ \A q \in PageIds : q < p => pages[q].created
    /\ p <= env.pages
    /\ \E c \in 1..MaxCap :
         pages' = [pages EXCEPT ![p] =
                     [ created |-> TRUE, exists |-> TRUE, is_active |-> TRUE,
                       interval |-> p, cap |-> c, last_checked |-> NoTime,
                       last_change_detected |-> NoTime,
                       current_version_id |-> NoId ]]
    /\ UNCHANGED <<now, versions, changes, notified, nextId, sched, batch,
                   lastPrune, analysed, compared, writers, env>>

\* DELETE /api/pages/{page_id} -> delete_tracked_page: the page document
\* goes, its versions stay.
DeletePage(p) ==
    /\ pages[p].exists
    /\ env.deletes
    /\ pages' = [pages EXCEPT ![p].exists = FALSE]
    /\ UNCHANGED <<now, versions, changes, notified, nextId, sched, batch,
                   lastPrune, analysed, compared, writers, env>>

\* get_content_duplicate: a version of the page with the same content hash.
get_content_duplicate(vs, p, text) ==
    LET same == { i \in 1..Len(vs) :
                    /\ vs[i].page = p
                    /\ calculate_content_hash(vs[i].text) = calculate_content_hash(text) }
    IN  IF same = {} THEN NoId
        ELSE vs[CHOOSE i \in same : \A j \in same : i <= j].id

\* database.create_page_version: the collection after it and the id of the
\* version it returned (the duplicate's when one exists).
create_page_version(vs, p, text, id) ==
    LET dup == get_content_duplicate(vs, p, text)
    IN  IF dup # NoId THEN [vs |-> vs, id |-> dup, inserted |-> FALSE]
        ELSE [vs |-> Append(vs, NewVersion(id, p, text, 1000, "direct")),
              id |-> id, inserted |-> TRUE]

\* get_page_versions(page_id): the newest 10, newest first.
PageVersionsLimit == 10
get_page_versions(vs, p) ==
    LET all == AllVersions(vs, p)
    IN  SubSeq(all, 1, Min(PageVersionsLimit, Len(all)))

\* POST /api/crawl/{page_id}, after a fetch that returned markup and text.
\* A failed fetch raises before anything is written.
CrawlPage(p) ==
    /\ pages[p].exists
    /\ env.crawls > 0
    /\ nextId <= MaxInserts
    /\ Len(changes) < MaxChanges
    /\ \E text \in Texts :
         LET made    == create_page_version(versions, p, text, nextId)
             listed  == get_page_versions(made.vs, p)
             changed == /\ Len(listed) > 1
                        /\ listed[Len(listed) - 1].text # text
             data    == IF changed
                        THEN [last_checked |-> now, current_version_id |-> made.id,
                              last_change_detected |-> now]
                        ELSE [last_checked |-> now, current_version_id |-> made.id]
         IN  /\ versions' = made.vs
             /\ nextId' = IF made.inserted THEN nextId + 1 ELSE nextId
             /\ changes' = IF changed
                           THEN Append(changes, [page |-> p, type |-> "manual_crawl",
                                                 version |-> NoId,
                                                 notification_sent |-> FALSE])
                           ELSE changes
             /\ pages' = UpdatePage(pages, p, data)
    /\ env' = [env EXCEPT !.crawls = @ - 1]
    /\ UNCHANGED <<now, notified, sched, batch, lastPrune, analysed, compared, writers>>

\* Time passes, up to the limit.
Elapse(limit) ==
    /\ now < limit
    /\ now' = now + 1
    /\ UNCHANGED <<pages, versions, changes, notified, nextId, sched, batch,
                   lastPrune, analysed, compared, writers, env>>

ClockTick == Elapse(MaxTime)

----------------------------------------------------------------------------
(* MonitoringScheduler: start, stop and the loop.                          *)

cleanup_interval_cycles == 10
SemaphoreWidth == 5
\* check_interval, 60 seconds, in minutes.
check_interval == 1

\* Lines 549-551: start() returns at once on a running scheduler.
AlreadyRunning_Never(s) == FALSE
AlreadyRunning(s) == s.running

\* start(), called when no stop() is in progress (main.py awaits each call
\* of the lifespan before the next): a no-op while running; otherwise the
\* loop task is created.
Start ==
    /\ sched.task # "cancelled"
    /\ env.starts > 0
    /\ env' = [env EXCEPT !.starts = @ - 1]
    /\ sched' = IF AlreadyRunning(sched) THEN sched
                ELSE [sched EXCEPT !.running = TRUE, !.task = "started",
                                   !.loops = @ + 1]
    /\ UNCHANGED <<now, pages, versions, changes, notified, nextId, batch,
                   lastPrune, analysed, compared, writers>>

\* Lines 564-565: self.task.cancel().
CancelTask_None(task) == task
CancelTask(task) == "cancelled"

\* stop() up to its await: running becomes False and the task is cancelled;
\* CancelledError is delivered to the loop, and through gather to the page
\* checks, at the await each is suspended in.
Stop ==
    /\ sched.running
    /\ sched' = [sched EXCEPT !.running = FALSE, !.task = CancelTask(@)]
    /\ UNCHANGED <<now, pages, versions, changes, notified, nextId, batch,
                   lastPrune, analysed, compared, writers, env>>

\* Lines 566-570: stop() awaits the task it cancelled, so it has returned
\* once running is False and the task has ended.
StopReturned_NoAwait(s) == ~s.running
StopReturned(s) == ~s.running /\ s.loops = 0

\* The cancelled loop leaves `while` through `except CancelledError: break`
\* (or finds self.running False at line 574), and stop()'s `await self.task`
\* returns.
LoopExit ==
    /\ \/ sched.task = "cancelled"
       \/ sched.task \in {"started", "sleeping"} /\ ~sched.running
    /\ sched' = [sched EXCEPT !.task = "none", !.loops = @ - 1]
    /\ batch' = [p \in DOMAIN batch |-> "idle"]
    /\ UNCHANGED <<now, pages, versions, changes, notified, nextId,
                   lastPrune, analysed, compared, writers, env>>

\* The pages get_pages_due_for_check (the module function) returns and
\* _get_pages_due_for_check keeps.
DuePages_Removed(pg, t) ==
    { p \in DOMAIN pg :
        /\ pg[p].created
        /\ (pg[p].last_checked = NoTime
              \/ t >= pg[p].last_checked + pg[p].interval) }
DuePages_AllActive(pg, t) ==
    { p \in DOMAIN pg : pg[p].exists /\ pg[p].is_active }
DuePages(pg, t) ==
    { p \in DOMAIN pg :
        /\ pg[p].exists
        /\ pg[p].is_active
        /\ (pg[p].last_checked = NoTime \/ pg[p].last_checked <= t)
        /\ (pg[p].last_checked = NoTime
              \/ t >= pg[p].last_checked + pg[p].interval) }

\* Which of the service calls of a maintenance run raise:
\* mfa_cleanup_service.cleanup_expired_mfa_codes, audit_service.
\* cleanup_old_audit_logs, mfa_cleanup_service.get_mfa_cleanup_stats.
CleanupFaults == [mfa : BOOLEAN, audit : BOOLEAN, stats : BOOLEAN]

\* safe_cleanup_expired_mfa_codes and safe_cleanup_old_audit_logs (lines
\* 465-504): the service call is inside try/except Exception, which logs
\* the error and returns 0.
SafeCleanup_Unguarded(raises) == IF raises THEN "raised" ELSE "done"
SafeCleanup(raises) == IF raises THEN "failed" ELSE "done"

\* A step of _run_safe_cleanup_tasks that follows the steps in `before`:
\* the one try of lines 595-618 ends at the first exception that reaches it.
CleanupStep(before, outcome) ==
    IF "raised" \in before \/ "skipped" \in before THEN "skipped" ELSE outcome

\* _run_safe_cleanup_tasks (lines 593-618): the MFA codes, the audit logs,
\* then the statistics.
run_safe_cleanup_tasks(f) ==
    LET mfa   == SafeCleanup(f.mfa)
        audit == CleanupStep({mfa}, SafeCleanup(f.audit))
        stats == CleanupStep({mfa, audit}, IF f.stats THEN "raised" ELSE "done")
    IN  [mfa |-> mfa, audit |-> audit, stats |-> stats]

\* Line 581: the cleanup tasks are due.
CleanupDue_Late(counter) == counter > cleanup_interval_cycles
CleanupDue(counter) == counter >= cleanup_interval_cycles

\* Lines 580-585: count the cycle, run the cleanup tasks on every
\* cleanup_interval_cycles-th and reset the counter, then sleep for
\* check_interval.  Nothing between lines 580 and 585 suspends the loop.
AfterCheck(s, f) ==
    LET due == CleanupDue(s.cleanup_counter + 1)
    IN  [s EXCEPT !.cleanup_counter = IF due THEN 0 ELSE @ + 1,
                  !.cycles = @ + 1,
                  !.cleanups = IF due THEN @ + 1 ELSE @,
                  !.last_cleanup = IF due THEN run_safe_cleanup_tasks(f) ELSE @,
                  !.task = "sleeping",
                  !.wake = now + check_interval]

\* One pass of `while self.running`, up to its first await: _check_pages
\* gathers one check per due page, or returns at once when none is due.
Tick ==
    /\ sched.running
    /\ \/ sched.task = "started"
       \/ sched.task = "sleeping" /\ now >= sched.wake
    /\ LET due == DuePages(pages, now)
       IN  IF due = {}
           THEN /\ \E f \in CleanupFaults : sched' = AfterCheck(sched, f)
                /\ batch' = batch
           ELSE /\ sched' = [sched EXCEPT !.task = "batch"]
                /\ batch' = [p \in DOMAIN pages |->
                                IF p \in due THEN "waiting" ELSE "idle"]
    /\ UNCHANGED <<now, pages, versions, changes, notified, nextId,
                   lastPrune, analysed, compared, writers, env>>

\* How a check that has ended ended.
Outcomes == {"fetch_failed", "error", "skipped", "lost", "stored"}

\* gather returns when every check of the batch has ended.
BatchEnd ==
    /\ sched.task = "batch"
    /\ \A p \in DOMAIN batch : batch[p] \in {"idle"} \cup Outcomes
    /\ \E f \in CleanupFaults : sched' = AfterCheck(sched, f)
    /\ batch' = [p \in DOMAIN batch |-> "idle"]
    /\ UNCHANGED <<now, pages, versions, changes, notified, nextId,
                   lastPrune, analysed, compared, writers, env>>

\* The checks of the batch that hold the semaphore (line 667).
InFlight(b) == { q \in DOMAIN b : b[q] = "fetching" }

\* `async with semaphore`: a check enters while fewer than 5 hold it.
SemaphoreFree_Always(b) == TRUE
SemaphoreFree(b) == Cardinality(InFlight(b)) < SemaphoreWidth

\* _check_single_page_smart up to its await: the semaphore is taken and the
\* fetch handed to the executor.
CheckStart(p) ==
    /\ sched.task = "batch"
    /\ batch[p] = "waiting"
    /\ SemaphoreFree(batch)
    /\ batch' = [batch EXCEPT ![p] = "fetching"]
    /\ UNCHANGED <<now, pages, versions, changes, notified, nextId, sched,
                   lastPrune, analysed, compared, writers, env>>

----------------------------------------------------------------------------
(* _check_single_page_smart after the fetch, lines 674-762: one step of    *)
(* the event loop, since nothing in it suspends.                           *)

\* _calculate_change_percentage, in tenths of a percent.
ChangePercentage(old, new) ==
    IF old = <<>> THEN 1000
    ELSE IF new = <<>> THEN 0
    ELSE LET T == Len(old) + Len(new)
             M == 2 * Matches(old, new)
         IN  (2000 * (T - M) + T) \div (2 * T)

\* versions_collection.find_one({"_id": id})
FindVersion(vs, id) == { i \in 1..Len(vs) : vs[i].id = id }

\* scheduler.get_latest_page_version: the second most recent version's
\* text, or "" when the page has fewer than two.
PreviousContent(vs, p) ==
    LET all == AllVersions(vs, p)
    IN  IF Len(all) > 1 THEN all[2].text ELSE <<>>

\* The update after a failed fetch (line 677).
FailedFetchFields_None(t) == [f \in {} |-> t]
FailedFetchFields(t) == [last_checked |-> t]

\* The loop task after a check raised: `except Exception` (lines 761-762)
\* logs it inside the check, and gather(return_exceptions=True) (line 636)
\* would collect it, so the task is where it was.
OnCheckError_Propagates(task) == "crashed"
OnCheckError(task) == task

\* Lines 674-678: the fetch returned nothing.
FetchFailure(p) ==
    /\ pages' = UpdatePage(pages, p, FailedFetchFields(now))
    /\ batch' = [batch EXCEPT ![p] = "fetch_failed"]
    /\ UNCHANGED <<versions, nextId, changes, notified, sched>>

\* How the check goes on after the notifier was called (attempt) and did or
\* did not send: _send_change_notification catches what it raises (lines
\* 857, 917-919) and line 729 drops what it returns, so the check goes on
\* to the change log.
AfterNotify_Aborts(attempt, sent) == IF attempt /\ ~sent THEN "error" ELSE "stored"
AfterNotify(attempt, sent) == "stored"

\* Lines 680-762, given the text the fetch returned, whether the mail
\* service accepts a message, and the effect sv of the save.
AfterFetch(p, fetched, fault, sent, sv) ==
         LET config == Config(pages[p].cap)
             pg1 == UpdatePage(sv.pg, p, [last_checked |-> now])
             pg2 == UpdatePage(pg1, p, [current_version_id |-> sv.ret,
                                        last_change_detected |-> now])
             found == FindVersion(sv.vs, sv.ret)
             score == sv.vs[CHOOSE i \in found : TRUE].score
             pct == ChangePercentage(PreviousContent(sv.vs, p), fetched)
             attempt == /\ ~sv.raised /\ sv.ret # NoId /\ found # {}
                        /\ sched.email_enabled
                        /\ pct > 0
                        /\ score >= config.min_change_threshold
             entry == [page |-> p, type |-> "content_changed", version |-> sv.ret,
                       notification_sent |-> sched.email_enabled]
             outcome == IF sv.raised THEN "error"
                        ELSE IF sv.ret = NoId THEN "skipped"
                        ELSE IF found = {} THEN "lost"
                        ELSE AfterNotify(attempt, sent)
         IN  /\ fault # "none" => env.faults
             /\ sv.inserted # NoId =>
                    nextId <= MaxInserts /\ Len(changes) < MaxChanges
             /\ pages' = CASE outcome = "error" -> sv.pg
                           [] outcome = "stored" -> pg2
                           [] OTHER -> pg1
             /\ versions' = sv.vs
             /\ nextId' = IF sv.inserted # NoId THEN nextId + 1 ELSE nextId
             /\ changes' = IF outcome = "stored" THEN Append(changes, entry)
                           ELSE changes
             /\ notified' = IF attempt
                            THEN notified \cup {[version |-> sv.ret, sent |-> sent]}
                            ELSE notified
             /\ batch' = [batch EXCEPT ![p] = outcome]
             /\ sched' = IF outcome = "error"
                         THEN [sched EXCEPT !.task = OnCheckError(sched.task)]
                         ELSE sched

CheckFinish(p) ==
    /\ sched.task = "batch"
    /\ batch[p] = "fetching"
    /\ \/ FetchFailure(p)
       \/ \E fetched \in Texts, fault \in Faults, sent \in BOOLEAN :
            AfterFetch(p, fetched, fault, sent,
                       save_version_if_significant(versions, pages, p, fetched,
                                                   Config(pages[p].cap), nextId, now,
                                                   fault))
    /\ UNCHANGED <<now, lastPrune, analysed, compared, writers, env>>

Next ==
    \/ \E p \in PageIds : CreatePage(p)
    \/ \E p \in PageIds : DeletePage(p)
    \/ \E p \in PageIds : CrawlPage(p)
    \/ ClockTick
    \/ Start
    \/ Stop
    \/ LoopExit
    \/ Tick
    \/ BatchEnd
    \/ \E p \in PageIds : CheckStart(p)
    \/ \E p \in PageIds : CheckFinish(p)

Spec == Init /\ [][Next]_vars

----------------------------------------------------------------------------
(* The same system over a store that can raise during a save.              *)

FaultEnvironments ==
    { [pages |-> 1, crawls |-> MaxCrawls, deletes |-> TRUE, starts |-> 1,
       faults |-> TRUE] }

InitFaults ==
    /\ InitCommon
    /\ writers = <<>>
    /\ env \in FaultEnvironments

SpecFaults == InitFaults /\ [][Next]_vars

----------------------------------------------------------------------------
(* Several scheduler instances (one per server process, each started by    *)
(* the lifespan of main.py) over one database: the calls of                *)
(* save_version_if_significant interleave at its database operations.      *)

Instances == 1..MaxInstances

IdleWriter ==
    [pc |-> "idle", page |-> NoId, read |-> NoId, text |-> <<>>, score |-> 0,
     inserted |-> NoId]

InitRace ==
    /\ InitCommon
    /\ writers = [w \in Instances |-> IdleWriter]
    /\ env = [pages |-> 1, crawls |-> 0, deletes |-> FALSE, starts |-> 0,
              faults |-> FALSE]

LatestId(vs, p) ==
    IF AllVersions(vs, p) # <<>> THEN AllVersions(vs, p)[1].id ELSE NoId

\* Where the call goes after the analysis (lines 175-177).
AfterAnalysis(analysis) ==
    IF analysis.raised THEN "idle" ELSE IF analysis.store THEN "insert" ELSE "skip"

\* Lines 167-175: find_one the latest version, analyse the fetched text.
RaceRead(w, p) ==
    /\ writers[w].pc = "idle"
    /\ pages[p].exists
    /\ \E text \in Texts :
         writers' = [writers EXCEPT ![w] =
            IF AfterAnalysis(Analysis[LatestContent(versions, p)][text]) = "idle"
            THEN IdleWriter
            ELSE [pc |-> AfterAnalysis(Analysis[LatestContent(versions, p)][text]),
                  page |-> p, read |-> LatestId(versions, p), text |-> text,
                  score |-> Analysis[LatestContent(versions, p)][text].score,
                  inserted |-> NoId]]
    /\ UNCHANGED <<now, pages, versions, changes, notified, nextId, sched, batch,
                   lastPrune, analysed, compared, env>>

\* Lines 179-184: the skip path's update_one, and return None.
RaceSkip(w) ==
    /\ writers[w].pc = "skip"
    /\ pages' = UpdatePage(pages, writers[w].page, SkipFields(now))
    /\ writers' = [writers EXCEPT ![w] = IdleWriter]
    /\ UNCHANGED <<now, versions, changes, notified, nextId, sched, batch,
                   lastPrune, analysed, compared, env>>

\* Line 205: insert_one.
RaceInsert(w) ==
    /\ writers[w].pc = "insert"
    /\ nextId <= MaxInserts
    /\ versions' = Append(versions, NewVersion(nextId, writers[w].page, writers[w].text,
                                               writers[w].score, "pipeline"))
    /\ nextId' = nextId + 1
    /\ writers' = [writers EXCEPT ![w].pc = "update", ![w].inserted = nextId]
    /\ UNCHANGED <<now, pages, changes, notified, sched, batch, lastPrune, analysed, compared, env>>

\* Lines 209-218: update_one of the page.
RaceUpdate(w) ==
    /\ writers[w].pc = "update"
    /\ pages' = UpdatePage(pages, writers[w].page,
                           [last_checked |-> now, last_change_detected |-> now,
                            current_version_id |-> writers[w].inserted])
    /\ writers' = [writers EXCEPT ![w].pc = "prune"]
    /\ UNCHANGED <<now, versions, changes, notified, nextId, sched, batch,
                   lastPrune, analysed, compared, env>>

\* Lines 223-225: prune_old_versions, and return the id.
RacePrune(w) ==
    /\ writers[w].pc = "prune"
    /\ versions' = prune_old_versions(versions, writers[w].page,
                                      Config(pages[writers[w].page].cap))
    /\ writers' = [writers EXCEPT ![w] = IdleWriter]
    /\ UNCHANGED <<now, pages, changes, notified, nextId, sched, batch,
                   lastPrune, analysed, compared, env>>

NextRace ==
    \/ \E p \in PageIds : CreatePage(p)
    \/ ClockTick
    \/ \E w \in Instances, p \in PageIds : RaceRead(w, p)
    \/ \E w \in Instances : RaceSkip(w)
    \/ \E w \in Instances : RaceInsert(w)
    \/ \E w \in Instances : RaceUpdate(w)
    \/ \E w \in Instances : RacePrune(w)

SpecRace == InitRace /\ [][NextRace]_vars

\* C8: no two writers in progress on the same page have read the same latest
\* version and both inserted a new version.
C8_CriticalSection ==
    \A w1, w2 \in DOMAIN writers :
        (/\ w1 # w2
         /\ writers[w1].inserted # NoId
         /\ writers[w2].inserted # NoId
         /\ writers[w1].page = writers[w2].page)
            => writers[w1].read # writers[w2].read

----------------------------------------------------------------------------
(* Properties of the scheduled checks and the manual crawl.                *)

\* The step in which the check of page p ends with the given outcome.
CheckEnds(p, outcome) == batch[p] = "fetching" /\ batch'[p] = outcome

VersionIds(vs) == { vs[i].id : i \in 1..Len(vs) }

\* C4: for every page with at least two stored versions, the content of the
\* most recent version differs from the content of the one before it.
C4_LatestDiffers ==
    \A p \in PageIds :
        Len(AllVersions(versions, p)) >= 2 =>
            calculate_quick_checksum(AllVersions(versions, p)[1].text)
                # calculate_quick_checksum(AllVersions(versions, p)[2].text)

\* C5: a check whose save decides not to store inserts no version, deletes
\* none, writes no change log, sends nothing, and changes nothing of the
\* page but last_checked.
C5_SkipOnlyTouchesLastChecked ==
    [][\A p \in PageIds :
         CheckEnds(p, "skipped") =>
            /\ versions' = versions
            /\ changes' = changes
            /\ notified' = notified
            /\ pages' = [pages EXCEPT ![p].last_checked = pages'[p].last_checked]
            /\ pages[p].exists => pages'[p].last_checked = now]_vars

\* A check was skipped on a page whose last change is older than the check.
C5_Witness ==
    \E p \in PageIds :
        /\ batch[p] = "skipped"
        /\ pages[p].current_version_id # NoId
        /\ pages[p].last_change_detected # NoTime
        /\ pages[p].last_change_detected < pages[p].last_checked
        /\ pages[p].last_checked = now

\* C6: when the save of a check has ended, normally or through a failure of
\* the store, either a new version of the page exists and the page's
\* current_version_id refers to it, or no new version exists and
\* current_version_id is what it was.
C6_SaveIsAtomic ==
    [][\A p \in PageIds :
         (batch[p] = "fetching" /\ batch'[p] \in Outcomes /\ pages[p].exists) =>
            IF VersionIds(versions') \ VersionIds(versions) # {}
            THEN pages'[p].current_version_id
                     \in VersionIds(versions') \ VersionIds(versions)
            ELSE pages'[p].current_version_id = pages[p].current_version_id]_vars

\* C7: every stored version was inserted by save_version_if_significant
\* after an analysis that returned store = true.
C7_OnlyThroughPipeline ==
    \A i \in 1..Len(versions) : versions[i].origin = "pipeline"

\* C9: a check whose fetch failed advances last_checked and changes nothing
\* else: no version, no change log, no notification, current_version_id and
\* last_change_detected as they were.
C9_FetchFailureOnlyAdvancesLastChecked ==
    [][\A p \in PageIds :
         CheckEnds(p, "fetch_failed") =>
            /\ versions' = versions
            /\ changes' = changes
            /\ notified' = notified
            /\ pages' = [pages EXCEPT ![p].last_checked = pages'[p].last_checked]
            /\ pages[p].exists => pages'[p].last_checked = now]_vars

\* A fetch failed for a page that has a version, after its last change.
C9_Witness ==
    \E p \in PageIds :
        /\ batch[p] = "fetch_failed"
        /\ pages[p].exists
        /\ pages[p].current_version_id # NoId
        /\ pages[p].last_change_detected < pages[p].last_checked
        /\ pages[p].last_checked = now

\* C10: once a check of a batch has raised or its fetch has failed, the loop
\* task is still there, and every other check of the batch can still start,
\* finish, and the batch end.
C10_BatchIsolation ==
    (\E p \in PageIds : batch[p] \in {"error", "fetch_failed"}) =>
        /\ sched.task \in {"batch", "cancelled"}
        /\ sched.task = "batch" =>
             /\ \A q \in PageIds :
                  /\ batch[q] = "waiting" => ENABLED CheckStart(q)
                  /\ batch[q] = "fetching" => ENABLED CheckFinish(q)
             /\ (\A q \in PageIds : batch[q] \notin {"waiting", "fetching"})
                  => ENABLED BatchEnd

\* One check of a batch raised and another check of the same batch stored a
\* version.
C10_Witness ==
    \E p, q \in PageIds :
        /\ batch[p] = "error"
        /\ batch[q] = "stored"
        /\ sched.task = "batch"

\* C13: when a check of a page ends, however it ends, a tick computing the
\* due pages at any time before check_interval_minutes have passed since
\* then does not select the page.
C13_NotDueBeforeInterval ==
    [][\A p \in PageIds :
         (batch[p] = "fetching" /\ batch'[p] \in Outcomes) =>
            \A t \in now..(now + pages'[p].interval - 1) :
                p \notin DuePages(pages', t)]_vars

\* The pages the claim calls due: active, and never checked or checked at
\* least check_interval_minutes ago.
ClaimedDue ==
    { p \in PageIds :
        /\ pages[p].exists
        /\ pages[p].is_active
        /\ \/ pages[p].last_checked = NoTime
           \/ now >= pages[p].last_checked + pages[p].interval }

\* The step in which the loop computes the due pages of a tick.
TickStep ==
    /\ sched.task \in {"started", "sleeping"}
    /\ sched'.task \in {"batch", "sleeping"}
    /\ sched' # sched

\* The versions of page p that save_version_if_significant inserted.
PipelineIds(vs, p) ==
    { vs[i].id : i \in { j \in 1..Len(vs) :
                           vs[j].page = p /\ vs[j].origin = "pipeline" } }

\* C14: a tick submits exactly the pages that are due when it computes the
\* set; a check is submitted only by a tick and only once, it runs once, and
\* the versioning engine inserts versions of a page only in the one step in
\* which the page's check of the tick ends.
C14_DueSetSubmittedOnce ==
    [][/\ TickStep =>
            { p \in PageIds : batch'[p] = "waiting" } = ClaimedDue
       /\ \A p \in PageIds :
            /\ batch'[p] # batch[p] =>
                 \/ batch[p] = "idle" /\ batch'[p] = "waiting" /\ TickStep
                 \/ batch[p] = "waiting" /\ batch'[p] = "fetching"
                 \/ batch[p] = "fetching" /\ batch'[p] \in Outcomes
                 \/ batch'[p] = "idle" /\ sched'.task \in {"sleeping", "none"}
            /\ PipelineIds(versions', p) \ PipelineIds(versions, p) # {} =>
                 /\ batch[p] = "fetching" /\ batch'[p] \in Outcomes
                 /\ Cardinality(PipelineIds(versions', p)
                                  \ PipelineIds(versions, p)) = 1]_vars

\* A tick has submitted one page, checked before and due again, and left
\* out another that is not due yet.
C14_Witness ==
    \E p, q \in PageIds :
        /\ sched.task = "batch"
        /\ batch[p] = "waiting"
        /\ pages[p].last_checked # NoTime
        /\ batch[q] = "idle"
        /\ pages[q].exists
        /\ pages[q].last_checked # NoTime
        /\ now < pages[q].last_checked + pages[q].interval

\* versioning_config.notification_threshold of a new page, in thousandths.
notification_threshold == 300

\* The versions _send_change_notification was called for.
Invoked == { n.version : n \in notified }

\* C15: while e-mail is enabled, the notifier has been invoked for a version
\* that a scheduled check stored if and only if the version's
\* change_significance_score is at least the notification threshold.
C15_NotifiedAtThreshold ==
    sched.email_enabled =>
        \A i \in 1..Len(versions) :
            versions[i].origin = "pipeline" =>
                (versions[i].id \in Invoked
                    <=> versions[i].score >= notification_threshold)

\* C16: when the notifier is called for a newly stored version and does not
\* send, the version is still stored, the page's current_version_id refers
\* to it, the change-log entry of the version is written, and the check ends
\* normally with the loop task where it was.
C16_NotifierFailureIsolated ==
    [][\A p \in PageIds : \A n \in notified' \ notified :
         (~n.sent /\ batch[p] = "fetching" /\ batch'[p] # "fetching") =>
            /\ n.version \in VersionIds(versions')
            /\ pages'[p].exists => pages'[p].current_version_id = n.version
            /\ Len(changes') = Len(changes) + 1
            /\ changes'[Len(changes')].version = n.version
            /\ changes'[Len(changes')].page = p
            /\ batch'[p] = "stored"
            /\ sched' = sched]_vars

\* The notifier was called for the second version of a page and did not
\* send; the version, the page's reference to it and its change-log entry
\* are there.
C16_Witness ==
    \E p \in PageIds : \E n \in notified :
        /\ ~n.sent
        /\ batch[p] = "stored"
        /\ pages[p].current_version_id = n.version
        /\ Len(AllVersions(versions, p)) >= 2
        /\ AllVersions(versions, p)[1].id = n.version
        /\ \E i \in 1..Len(changes) : changes[i].version = n.version

\* C17: a scheduled check appends exactly one change-log entry when it
\* inserts a version of a page that already had one, and none otherwise (a
\* first version, a skipped check, a failed fetch).
C17_OneEntryPerLaterVersion ==
    [][\A p \in PageIds :
         (batch[p] = "fetching" /\ batch'[p] \in Outcomes) =>
            Len(changes') = Len(changes)
                + (IF nextId' # nextId /\ AllVersions(versions, p) # <<>>
                   THEN 1 ELSE 0)]_vars

\* The versions a notification was sent for.
Sent == { n.version : n \in { m \in notified : m.sent } }

\* C18: the notification_sent flag of the change-log entry of a scheduled
\* check is true exactly when a notification was sent for the entry's
\* version.
C18_FlagMatchesNotification ==
    \A i \in 1..Len(changes) :
        changes[i].type = "content_changed" =>
            (changes[i].notification_sent <=> changes[i].version \in Sent)

\* C19: a start() call on a running scheduler changes nothing of the
\* scheduler, the batch or the collections, and there is never more than one
\* loop task.
C19_StartIdempotent ==
    [][/\ (sched.running /\ env'.starts # env.starts) =>
            UNCHANGED <<now, pages, versions, changes, notified, nextId, sched,
                        batch>>
       /\ sched'.loops <= 1]_vars

\* start() has been called MaxStarts times, the scheduler runs one loop, and
\* the batch of its first tick is in progress.
C19_Witness ==
    /\ sched.running
    /\ sched.loops = 1
    /\ env.pages = 1
    /\ env.starts = 0
    /\ sched.task = "batch"
    /\ sched.cleanup_counter = 0

\* A step of the API: a page is created or deleted, or a crawl is spent.
ApiStep ==
    \/ env'.crawls # env.crawls
    \/ \E p \in PageIds : pages'[p].created # pages[p].created
    \/ \E p \in PageIds : pages'[p].exists # pages[p].exists

\* C20: once stop() has returned and until start() is called, the loop task
\* has ended, no page check is in progress or starts, and every change of
\* the versions, the change log or the pages is made by the API, not by the
\* scheduler.
C20_NothingAfterStop ==
    [][StopReturned(sched) =>
         /\ sched.loops = 0
         /\ \A p \in PageIds : batch[p] = "idle" /\ batch'[p] = "idle"
         /\ \A p \in PageIds : PipelineIds(versions', p) = PipelineIds(versions, p)
         /\ (versions' # versions \/ changes' # changes \/ pages' # pages)
                => ApiStep
         /\ notified' = notified]_vars

\* stop() has returned on a scheduler that had stored a version, and a page
\* checked before is due again with nothing checking it.
C20_Witness ==
    /\ StopReturned(sched)
    /\ env.starts < MaxStarts
    /\ \E p \in PageIds :
         /\ PipelineIds(versions, p) # {}
         /\ pages[p].last_checked # NoTime
         /\ p \in DuePages(pages, now)
    /\ ENABLED Start

\* is_running (lines 1063-1066): the property returns self.running.
is_running(s) == s.running

\* C21: in no state is is_running false while the loop task created by the
\* last start() has not yet ended.
C21_StoppedOnlyAfterLoopExit == ~is_running(sched) => sched.loops = 0

----------------------------------------------------------------------------
(* A tick with more due pages than the semaphore is wide.                  *)

\* The tracked pages of the wide batch, all created before start().
MaxBatch == 6

InitPool ==
    /\ now = 0
    /\ pages = [p \in 1..MaxBatch |->
                  [ created |-> TRUE, exists |-> TRUE, is_active |-> TRUE,
                    interval |-> p, cap |-> MaxCap, last_checked |-> NoTime,
                    last_change_detected |-> NoTime,
                    current_version_id |-> NoId ]]
    /\ versions = <<>>
    /\ changes = <<>>
    /\ notified = {}
    /\ nextId = 1
    /\ sched = InitScheduler(FALSE)
    /\ batch = [p \in 1..MaxBatch |-> "idle"]
    /\ lastPrune = NoPruneYet
    /\ analysed = NotAnalysed
    /\ compared = NotCompared
    /\ writers = <<>>
    /\ env = [pages |-> MaxBatch, crawls |-> 0, deletes |-> FALSE, starts |-> 1,
              faults |-> FALSE]

\* The batch of one tick; the clock stands still while it runs.
NextPool ==
    \/ Start
    \/ Tick
    \/ BatchEnd
    \/ \E p \in 1..MaxBatch : CheckStart(p)
    \/ \E p \in 1..MaxBatch : CheckFinish(p)

SpecPool == InitPool /\ [][NextPool]_vars

\* C11: at no moment do more than 5 page checks hold the semaphore (a check
\* holds it from the start of its fetch to the end of its processing).
C11_BoundedConcurrency == Cardinality(InFlight(batch)) <= 5

\* Five checks are in flight and a sixth due page waits for the semaphore.
C11_Witness ==
    /\ Cardinality(InFlight(batch)) = 5
    /\ \E p \in DOMAIN batch : batch[p] = "waiting"
    /\ sched.running

----------------------------------------------------------------------------
(* The scheduler under the scheduling the event loop gives it: the clock   *)
(* advances, a task that can run does, and every fetch returns except,     *)
(* possibly, those of the last page, whose site may never answer.          *)
(* _fetch_page_content (lines 1035-1048) awaits the executor with no       *)
(* timeout.                                                                *)

InitSlow ==
    /\ InitCommon
    /\ writers = <<>>
    /\ env = [pages |-> MaxPages, crawls |-> 0, deletes |-> FALSE, starts |-> 1,
              faults |-> FALSE]

NextSlow ==
    \/ \E p \in PageIds : CreatePage(p)
    \/ ClockTick
    \/ Start
    \/ Stop
    \/ LoopExit
    \/ Tick
    \/ BatchEnd
    \/ \E p \in PageIds : CheckStart(p)
    \/ \E p \in PageIds : CheckFinish(p)

FairSlow ==
    /\ WF_vars(ClockTick)
    /\ WF_vars(Start)
    /\ WF_vars(LoopExit)
    /\ WF_vars(Tick)
    /\ WF_vars(BatchEnd)
    /\ \A p \in PageIds : WF_vars(CreatePage(p))
    /\ \A p \in PageIds : WF_vars(CheckStart(p))
    /\ \A p \in PageIds \ {MaxPages} : WF_vars(CheckFinish(p))

SpecSlow == InitSlow /\ [][NextSlow]_vars /\ FairSlow

\* A check of page q is in progress.
InProgress(q) == batch[q] \in {"waiting", "fetching"}

\* The loop sleeps until after the end of the model's time.
SleepsPastHorizon == sched.task = "sleeping" /\ sched.wake > MaxTime

\* C12: while the scheduler runs, a page other than the slow one that is due
\* is eventually submitted for a check, and a check of it in progress
\* eventually ends, unless the scheduler is stopped first.
C12_NoStarvation ==
    \A q \in PageIds \ {MaxPages} :
        /\ (sched.running /\ q \in DuePages(pages, now) /\ ~InProgress(q))
              ~> (InProgress(q) \/ ~sched.running \/ SleepsPastHorizon)
        /\ InProgress(q) ~> (batch[q] \in Outcomes \/ ~sched.running)

\* C22: stop() called on a running scheduler eventually returns, wherever
\* the loop is suspended and even if a fetch in flight never returns.
C22_StopTerminates ==
    (~sched.running /\ sched.loops > 0) ~> StopReturned(sched)

\* stop() has been called while the slow page's fetch is in flight.
C22_Witness ==
    /\ ~sched.running
    /\ sched.task = "cancelled"
    /\ batch[MaxPages] = "fetching"

----------------------------------------------------------------------------
(* The scheduler over enough cycles for the cleanup tasks to come round:   *)
(* one page checked every minute, the scheduler stopped and started again. *)

MaxCycleTime == 20

\* The page's versions when the scheduler is constructed: the first version
\* and the changes stored since, as the earlier runs of the pipeline left
\* them.  They use up the ids of the model, so that the checks to come
\* skip, fail to fetch or raise.
StoredBefore ==
    [i \in 1..MaxInserts |->
        NewVersion(i, 1, IF i % 2 = 1 THEN <<"a">> ELSE <<"a", "\n">>,
                   IF i = 1 THEN 1000 ELSE Analysis[<<"a">>][<<"a", "\n">>].score,
                   "pipeline")]

InitCycles ==
    /\ now = 0
    /\ pages = [p \in PageIds |->
                  IF p = 1
                  THEN [ created |-> TRUE, exists |-> TRUE, is_active |-> TRUE,
                         interval |-> 1, cap |-> MaxInserts, last_checked |-> 0,
                         last_change_detected |-> 0,
                         current_version_id |-> MaxInserts ]
                  ELSE NoPage]
    /\ versions = StoredBefore
    /\ changes = <<>>
    /\ notified = {}
    /\ nextId = MaxInserts + 1
    /\ sched = InitScheduler(FALSE)
    /\ batch = Idle
    /\ lastPrune = NoPruneYet
    /\ analysed = NotAnalysed
    /\ compared = NotCompared
    /\ writers = <<>>
    /\ env = [pages |-> 1, crawls |-> 0, deletes |-> FALSE, starts |-> MaxStarts,
              faults |-> FALSE]

\* A minute passes while the loop sleeps or no loop exists: a pass of the
\* loop takes less than a minute, and a sleeper is woken on time.
ClockCycles ==
    /\ \/ sched.task = "none"
       \/ sched.task = "sleeping" /\ now < sched.wake
    /\ Elapse(MaxCycleTime)

NextCycles ==
    \/ ClockCycles
    \/ Start
    \/ Stop
    \/ LoopExit
    \/ Tick
    \/ BatchEnd
    \/ \E p \in PageIds : CheckStart(p)
    \/ \E p \in PageIds : CheckFinish(p)

SpecCycles == InitCycles /\ [][NextCycles]_vars

\* C23: the cleanup tasks have run once for every 10 completed passes of
\* the loop, the counter is the number of passes since the last run and
\* lies in 0..9, whatever the checks of a pass did and however often the
\* scheduler was stopped and started.
C23_EveryTenthTick ==
    /\ sched.cleanup_counter \in 0..(cleanup_interval_cycles - 1)
    /\ sched.cleanup_counter = sched.cycles % cleanup_interval_cycles
    /\ sched.cleanups = sched.cycles \div cleanup_interval_cycles

\* The cleanup tasks have run once, the scheduler has been started again
\* since it was constructed, and the check of the 20th pass has raised.
C23_Witness ==
    /\ sched.cleanups = 1
    /\ sched.cycles = 2 * cleanup_interval_cycles - 1
    /\ env.starts = 0
    /\ batch[1] = "error"
    /\ ENABLED BatchEnd

\* A sub-task of a maintenance run was called: it ended, or it failed and
\* its own handler returned 0.
Called(outcome) == outcome \in {"done", "failed"}

\* C24: every maintenance run calls both the MFA-code cleanup and the
\* audit-log cleanup, whichever of them fails, and leaves the loop task
\* alive and asleep until the next pass.
C24_CleanupsIsolated ==
    [][sched'.cleanups # sched.cleanups =>
         /\ Called(sched'.last_cleanup.mfa)
         /\ Called(sched'.last_cleanup.audit)
         /\ sched'.task = "sleeping"
         /\ sched'.running = sched.running
         /\ sched'.loops = sched.loops]_vars

\* The MFA-code cleanup failed in the latest maintenance run, the audit-log
\* cleanup ran, and the loop has completed a pass since.
C24_Witness ==
    /\ sched.last_cleanup.mfa = "failed"
    /\ sched.last_cleanup.audit = "done"
    /\ sched.cycles > cleanup_interval_cycles
    /\ sched.running

----------------------------------------------------------------------------
(* analyze_change_significance called directly, on every pair of the       *)
(* texts below under every config below.                                   *)

\* "abcde" and "abcde\r\n": the same words and the same lines.
OneLine == <<"a", "b", "c", "d", "e">>
OneLineCRLF == <<"a", "b", "c", "d", "e", "\r", "\n">>

\* "x" and "bug\nfix\napi": no common character, more words and lines
\* changed than the old text has, three keywords.
JustX == <<"x">>
KeywordLines ==
    <<"b", "u", "g", "\n", "f", "i", "x", "\n", "a", "p", "i">>

CriticalPatch ==
    <<"c", "r", "i", "t", "i", "c", "a", "l", " ", "s", "e", "c", "u", "r",
      "i", "t", "y", " ", "p", "a", "t", "c", "h", " ", "r", "e", "l", "e",
      "a", "s", "e", "d">>

RoutineUpdate ==
    <<"r", "o", "u", "t", "i", "n", "e", " ", "u", "p", "d", "a", "t", "e",
      " ", "r", "e", "l", "e", "a", "s", "e", "d">>

AnalysedTexts ==
    Texts \cup Md5Collision
          \cup {<<>>, OneLine, OneLineCRLF, JustX, KeywordLines, CriticalPatch, RoutineUpdate}

\* min_change_threshold, in thousandths: none, the default, the rounded
\* score of (OneLine, OneLineCRLF), and more than any score.
Thresholds == {0, min_change_threshold, 67, 1001}

\* The configs: default_config updated with the caller's keys (lines 36-45).
AnalysedConfigs ==
    { [Config(MaxCap) EXCEPT !.min_change_threshold = th,
                             !.require_significant_keywords = kw,
                             !.check_structural_changes = st] :
        th \in Thresholds, kw \in BOOLEAN, st \in BOOLEAN }

InitAnalysis ==
    /\ now = 0
    /\ pages = [p \in PageIds |-> NoPage]
    /\ versions = <<>>
    /\ changes = <<>>
    /\ notified = {}
    /\ nextId = 1
    /\ sched = InitScheduler(FALSE)
    /\ batch = Idle
    /\ lastPrune = NoPruneYet
    /\ \E old \in AnalysedTexts, new \in AnalysedTexts, config \in AnalysedConfigs :
         analysed = [called |-> FALSE, old |-> old, new |-> new, config |-> config]
    /\ compared = NotCompared
    /\ writers = <<>>
    /\ env = [pages |-> 0, crawls |-> 0, deletes |-> FALSE, starts |-> 0,
              faults |-> FALSE]

\* The call of both services on the texts and the config.
Analyse ==
    /\ ~analysed.called
    /\ analysed' =
         [analysed EXCEPT !.called = TRUE] @@
         [result |-> analyze_change_significance(analysed.old, analysed.new,
                                                 analysed.config),
          diff   |-> DiffService_analyze_change_significance(
                         analysed.old, analysed.new,
                         analysed.config.min_change_threshold)]
    /\ UNCHANGED <<now, pages, versions, changes, notified, nextId, sched, batch,
                   lastPrune, compared, writers, env>>

NextAnalysis == Analyse

SpecAnalysis == InitAnalysis /\ [][NextAnalysis]_vars

\* C25: with an empty old text and a non-empty new one, under every
\* config, both services return store = true, score = 1.0 and the reason
\* "First version".
C25_FirstVersionStored ==
    (analysed.called /\ analysed.old = <<>> /\ analysed.new # <<>>) =>
        /\ ~analysed.result.raised
        /\ analysed.result.store
        /\ analysed.result.score = 1000
        /\ analysed.result.reason = "First version"
        /\ analysed.diff.store
        /\ analysed.diff.score = Whole(1)
        /\ analysed.diff.reason = "First version"

\* A first version analysed under a threshold no score reaches.
C25_Witness ==
    /\ analysed.called
    /\ analysed.old = <<>>
    /\ analysed.new = KeywordLines
    /\ analysed.config.min_change_threshold > 1000
    /\ analysed.result.store

\* C26: on two equal texts, the empty text among them, under every config,
\* the analysis returns store = false and score = 0.0.
C26_IdenticalSkipped ==
    (analysed.called /\ analysed.old = analysed.new) =>
        /\ ~analysed.result.raised
        /\ ~analysed.result.store
        /\ analysed.result.score = 0

\* The empty text analysed against itself under a threshold of 0, which
\* every score reaches.
C26_Witness ==
    /\ analysed.called
    /\ analysed.old = <<>>
    /\ analysed.new = <<>>
    /\ analysed.config.min_change_threshold = 0
    /\ ~analysed.result.store

\* The score the analysis returned, against the threshold of the config.
ScoreReachesThreshold ==
    analysed.result.score >= analysed.config.min_change_threshold

\* C27: when the old text is not empty and differs from the new one and the
\* analysis returns the result of its detailed comparison, store is true
\* exactly if the score of that result is at least min_change_threshold.
C27_StoreIffScoreReachesThreshold ==
    (analysed.called /\ analysed.old # <<>> /\ analysed.old # analysed.new
       /\ analysed.result.reason = "Detailed") =>
        (analysed.result.store <=> ScoreReachesThreshold)

\* A score between 0 and 1, as a fraction.
InUnitInterval(f) == 0 <= f.num /\ f.num <= f.den

\* C28: every score the analysis returns lies between 0 and 1, and so does
\* the weighted sum of the clamped character, word, line and keyword
\* signals of any two texts under any config.
C28_ScoreInUnitInterval ==
    analysed.called =>
        /\ analysed.result.score \in 0..1000
        /\ InUnitInterval(analysed.diff.score)
        /\ InUnitInterval(ScoreFraction(analysed.old, analysed.new, analysed.config))

\* The detailed comparison returned a score above 0.
C28_Witness ==
    /\ analysed.called
    /\ analysed.result.reason = "Detailed"
    /\ analysed.result.score > 0
    /\ analysed.diff.score.num > 0

\* The analysis found the two texts identical and returned without
\* comparing them further.
ClassifiedIdentical(result) ==
    result.reason \in {"Identical content", "Identical checksum"}

\* C29: two different texts with the same checksum and different content
\* hashes are not classified as identical.
C29_ChecksumIsAdvisory ==
    (/\ analysed.called
     /\ analysed.old # analysed.new
     /\ calculate_quick_checksum(analysed.old) = calculate_quick_checksum(analysed.new)
     /\ calculate_content_hash(analysed.old) # calculate_content_hash(analysed.new))
        => /\ ~ClassifiedIdentical(analysed.result)
           /\ ~ClassifiedIdentical(analysed.diff)

\* The default_config of lines 36-42.
IsDefaultConfig(config) ==
    /\ config.min_change_threshold = min_change_threshold
    /\ config.require_significant_keywords
    /\ config.check_structural_changes

\* C30: under the default config the analysis of "critical security patch
\* released" against "routine update released" returns, with store = true
\* and a score above 0.05.
C30_KeywordChangeStored ==
    (/\ analysed.called
     /\ analysed.old = CriticalPatch
     /\ analysed.new = RoutineUpdate
     /\ IsDefaultConfig(analysed.config))
        => /\ ~analysed.result.raised
           /\ analysed.result.store
           /\ analysed.result.score > min_change_threshold

----------------------------------------------------------------------------
(* prune_old_versions called directly on a store that already exists, as   *)
(* cleanup_existing_versions does for every page (scheduler.py:801-832).   *)

\* The scores of stored versions: 0 is what a document without a
\* change_significance_score is read as (line 258), then the two sides of
\* keep_significant_threshold and the score of a first version.
PruneScores == {0, keep_significant_threshold - 1, keep_significant_threshold, 1000}

\* The stores of at most MaxLen versions, in timestamp order, of the first
\* and the last page.
Stores ==
    UNION { [1..n -> [page : {1, MaxPages}, score : PruneScores]] : n \in 0..MaxLen }

StoredVersion(id, doc) ==
    NewVersion(id, doc.page, <<"a">>, doc.score, "pipeline")

InitPrune ==
    /\ now = 0
    /\ \E c \in 1..MaxLen :
         pages = [p \in PageIds |->
                    [ created |-> TRUE, exists |-> TRUE, is_active |-> TRUE,
                      interval |-> p, cap |-> c, last_checked |-> NoTime,
                      last_change_detected |-> NoTime,
                      current_version_id |-> NoId ]]
    /\ \E store \in Stores :
         /\ versions = [i \in 1..Len(store) |-> StoredVersion(i, store[i])]
         /\ nextId = Len(store) + 1
    /\ changes = <<>>
    /\ notified = {}
    /\ sched = InitScheduler(FALSE)
    /\ batch = Idle
    /\ lastPrune = NoPruneYet
    /\ analysed = NotAnalysed
    /\ compared = NotCompared
    /\ writers = <<>>
    /\ env = [pages |-> MaxPages, crawls |-> 0, deletes |-> FALSE, starts |-> 0,
              faults |-> FALSE]

\* versioning_service.prune_old_versions(page_id, config)
PruneOp(p) ==
    /\ pages[p].exists
    /\ versions' = prune_old_versions(versions, p, Config(pages[p].cap))
    /\ lastPrune' = [page |-> p, cap |-> pages[p].cap, before |-> versions]
    /\ UNCHANGED <<now, pages, changes, notified, nextId, sched, batch,
                   analysed, compared, writers, env>>

NextPrune == \E p \in PageIds : PruneOp(p)

SpecPrune == InitPrune /\ [][NextPrune]_vars

\* After a direct prune: the page's versions before it and after it, newest
\* first, and the ids that remain.
Pruned == lastPrune.page # NoId
Before == AllVersions(lastPrune.before, lastPrune.page)
After == AllVersions(versions, lastPrune.page)
RemainingIds == { versions[i].id : i \in 1..Len(versions) }
SignificantBefore == { i \in 1..Len(Before) : IsSignificant(Before[i]) }

\* C1: after prune_old_versions the page has at most max_versions_kept
\* versions, whatever the store and the cap (>= 1).
C1_PruneWithinCap == Pruned => Len(After) <= lastPrune.cap

\* A prune of a page that held more than the cap, and deleted.
C1_Witness ==
    /\ Pruned
    /\ Len(Before) > lastPrune.cap + 1
    /\ Len(After) = lastPrune.cap
    /\ lastPrune.cap > 1

\* C2: prune_old_versions never deletes the oldest version of the page.
C2_OldestRetained ==
    (Pruned /\ Before # <<>>) => Before[Len(Before)].id \in RemainingIds

\* A prune that deleted versions of a page whose oldest version is not
\* significant, and left the oldest.
C2_Witness ==
    /\ Pruned
    /\ Len(After) < Len(Before)
    /\ ~IsSignificant(Before[Len(Before)])
    /\ Before[Len(Before)].id \in RemainingIds

\* Every version that was significant before the prune is still there.
SignificantRetained == \A i \in SignificantBefore : Before[i].id \in RemainingIds

\* C3 as stated: when the significant versions number at most
\* max_versions_kept, all of them are still present after the prune.
C3_AsStated ==
    (Pruned /\ Cardinality(SignificantBefore) <= lastPrune.cap)
        => SignificantRetained

\* C3: when the significant versions, and the oldest version if it is not
\* one of them, number at most max_versions_kept, every significant version
\* is still present after the prune.
C3_SignificantRetained ==
    (/\ Pruned
     /\ Cardinality(SignificantBefore)
          + (IF Before # <<>> /\ ~IsSignificant(Before[Len(Before)]) THEN 1 ELSE 0)
            <= lastPrune.cap)
        => SignificantRetained

\* A prune that deleted versions while the significant ones and the
\* insignificant oldest exactly filled the cap.
C3_Witness ==
    /\ Pruned
    /\ Len(After) < Len(Before)
    /\ ~IsSignificant(Before[Len(Before)])
    /\ Cardinality(SignificantBefore) + 1 = lastPrune.cap
    /\ Cardinality(SignificantBefore) >= 2
    /\ SignificantRetained

----------------------------------------------------------------------------
(* prune_old_versions on a page that holds 60 versions, 5 of them          *)
(* significant, under the default cap of 50.                               *)

LargeStore == 60
LargeCap == 50
LargeSignificant == 5

\* Where, in timestamp order, the significant versions may lie: among the
\* oldest, the middle and the newest versions.
SamplePositions == {1, 2, 3, 29, 30, 31, 58, 59, 60}

SignificantPlacements ==
    { S \in SUBSET SamplePositions : Cardinality(S) = LargeSignificant }

InitPruneLarge ==
    /\ now = 0
    /\ pages = [p \in PageIds |->
                  IF p = 1
                  THEN [ created |-> TRUE, exists |-> TRUE, is_active |-> TRUE,
                         interval |-> 1, cap |-> LargeCap, last_checked |-> NoTime,
                         last_change_detected |-> NoTime,
                         current_version_id |-> NoId ]
                  ELSE NoPage]
    /\ \E S \in SignificantPlacements :
       \E hi \in {keep_significant_threshold, 1000} :
       \E lo \in {0, keep_significant_threshold - 1} :
         versions = [i \in 1..LargeStore |->
                        NewVersion(i, 1, <<"a">>, IF i \in S THEN hi ELSE lo,
                                   "pipeline")]
    /\ nextId = LargeStore + 1
    /\ changes = <<>>
    /\ notified = {}
    /\ sched = InitScheduler(FALSE)
    /\ batch = Idle
    /\ lastPrune = NoPruneYet
    /\ analysed = NotAnalysed
    /\ compared = NotCompared
    /\ writers = <<>>
    /\ env = [pages |-> 1, crawls |-> 0, deletes |-> FALSE, starts |-> 0,
              faults |-> FALSE]

NextPruneLarge == PruneOp(1)

SpecPruneLarge == InitPruneLarge /\ [][NextPruneLarge]_vars

\* C31: the prune of the 60 versions leaves exactly 50: the 5 significant
\* ones, the oldest, and others to fill up.
C31_FiftyRemain ==
    Pruned =>
        /\ Len(After) = LargeCap
        /\ SignificantRetained
        /\ Before[Len(Before)].id \in RemainingIds

\* A prune of 60 versions whose oldest is not one of the 5 significant.
C31_Witness ==
    /\ Pruned
    /\ Len(Before) = LargeStore
    /\ Cardinality(SignificantBefore) = LargeSignificant
    /\ ~IsSignificant(Before[Len(Before)])
    /\ Len(After) = LargeCap

----------------------------------------------------------------------------
(* compare_text called directly on every pair of short texts.              *)

MaxDiffLen == 4

DiffAlphabet == {"a", "b", "\n"}

\* The texts of at most MaxDiffLen characters, and a text with two kinds of
\* line ending.
DiffTexts ==
    UNION { [1..n -> DiffAlphabet] : n \in 0..MaxDiffLen }
      \cup { <<"a", "\r", "\n", "b", "\r">> }

InitDiff ==
    /\ now = 0
    /\ pages = [p \in PageIds |-> NoPage]
    /\ versions = <<>>
    /\ changes = <<>>
    /\ notified = {}
    /\ nextId = 1
    /\ sched = InitScheduler(FALSE)
    /\ batch = Idle
    /\ lastPrune = NoPruneYet
    /\ analysed = NotAnalysed
    /\ \E old \in DiffTexts, new \in DiffTexts :
         compared = [called |-> FALSE, old |-> old, new |-> new]
    /\ writers = <<>>
    /\ env = [pages |-> 0, crawls |-> 0, deletes |-> FALSE, starts |-> 0,
              faults |-> FALSE]

Compare ==
    /\ ~compared.called
    /\ compared' = [compared EXCEPT !.called = TRUE] @@
                   [changes |-> compare_text(compared.old, compared.new)]
    /\ UNCHANGED <<now, pages, versions, changes, notified, nextId, sched, batch,
                   lastPrune, analysed, writers, env>>

NextDiff == Compare

SpecDiff == InitDiff /\ [][NextDiff]_vars

\* C32: compare_text returns no change for two equal texts, one ADDED
\* change with the whole new text when only the old text is empty, and one
\* REMOVED change with the whole old text when only the new text is empty.
C32_EdgeCases ==
    compared.called =>
        /\ compared.old = compared.new => compared.changes = <<>>
        /\ (compared.old = <<>> /\ compared.new # <<>>) =>
              /\ Len(compared.changes) = 1
              /\ compared.changes[1].change_type = "added"
              /\ compared.changes[1].new_content = compared.new
              /\ compared.changes[1].old_content = <<>>
        /\ (compared.old # <<>> /\ compared.new = <<>>) =>
              /\ Len(compared.changes) = 1
              /\ compared.changes[1].change_type = "removed"
              /\ compared.changes[1].old_content = compared.old
              /\ compared.changes[1].new_content = <<>>

\* Two equal texts of several lines were compared.
C32_Witness ==
    /\ compared.called
    /\ compared.old = compared.new
    /\ Len(SplitLines(compared.old)) > 1
    /\ compared.changes = <<>>

RECURSIVE Rebuild(_, _, _, _)
\* The old lines from position pos on, with the old line range of each
\* change from the n-th on replaced by the new content of the change.
Rebuild(old_lines, chs, n, pos) ==
    IF n > Len(chs) THEN Join(Slice(old_lines, pos, Len(old_lines)))
    ELSE Join(Slice(old_lines, pos, chs[n].line_range_old[1]))
         \o chs[n].new_content
         \o Rebuild(old_lines, chs, n + 1, chs[n].line_range_old[2])

\* C33: the old lines, with the old line range of every change replaced by
\* the new content of the change, are the new text.
C33_RoundTrip ==
    compared.called =>
        Rebuild(SplitKeepAcc(compared.old, 1, <<>>, <<>>), compared.changes, 1, 0)
            = compared.new

\* A comparison that returned two changes with an unchanged line between.
C33_Witness ==
    /\ compared.called
    /\ Len(compared.changes) = 2
    /\ compared.changes[1].line_range_old[2] < compared.changes[2].line_range_old[1]
    /\ compared.old # <<>>
    /\ compared.new # <<>>

----------------------------------------------------------------------------
(* Pages that are deleted or deactivated while the scheduler runs.         *)

\* update_tracked_page(page_id, {"is_active": False}): the page document
\* stays and is no longer active.
DeactivatePage(p) ==
    /\ pages[p].exists
    /\ pages[p].is_active
    /\ env.deletes
    /\ pages' = [pages EXCEPT ![p].is_active = FALSE]
    /\ UNCHANGED <<now, versions, changes, notified, nextId, sched, batch,
                   lastPrune, analysed, compared, writers, env>>

\* The pages are created before start(), as in InitPool.
InitRemoval ==
    /\ now = 0
    /\ pages = [p \in PageIds |->
                  [ created |-> TRUE, exists |-> TRUE, is_active |-> TRUE,
                    interval |-> p, cap |-> MaxCap, last_checked |-> NoTime,
                    last_change_detected |-> NoTime,
                    current_version_id |-> NoId ]]
    /\ versions = <<>>
    /\ changes = <<>>
    /\ notified = {}
    /\ nextId = 1
    /\ sched = InitScheduler(FALSE)
    /\ batch = Idle
    /\ lastPrune = NoPruneYet
    /\ analysed = NotAnalysed
    /\ compared = NotCompared
    /\ writers = <<>>
    /\ env = [pages |-> MaxPages, crawls |-> 0, deletes |-> TRUE, starts |-> 1,
              faults |-> FALSE]

NextRemoval ==
    \/ \E p \in PageIds : DeletePage(p)
    \/ \E p \in PageIds : DeactivatePage(p)
    \/ ClockTick
    \/ Start
    \/ Tick
    \/ BatchEnd
    \/ \E p \in PageIds : CheckStart(p)
    \/ \E p \in PageIds : CheckFinish(p)

SpecRemoval == InitRemoval /\ [][NextRemoval]_vars

\* The page document is gone or is no longer active.
Removed(p) == pages[p].created /\ ~(pages[p].exists /\ pages[p].is_active)

\* C34: a page that has been deleted or deactivated is in the due set of no
\* later tick, and no check of it is created: a check of a page comes into
\* being only while the page exists and is active.
C34_RemovedNotScheduled ==
    [][\A p \in PageIds :
          Removed(p) => /\ p \notin DuePages(pages, now)
                        /\ batch[p] = "idle" => batch'[p] = "idle"]_vars

\* Page 1 was removed before it was ever checked, and a later tick has
\* submitted page 2 without it.
C34_Witness ==
    /\ Removed(1)
    /\ pages[1].last_checked = NoTime
    /\ batch[1] = "idle"
    /\ batch[2] = "waiting"

----------------------------------------------------------------------------
(* Retention over the scheduled checks and the manual crawls together.     *)

\* C35: once a scheduled check or a manual crawl has completed, no page has
\* more stored versions than its max_versions_kept.
C35_RetentionBounded ==
    \A p \in PageIds :
        pages[p].created => Len(AllVersions(versions, p)) <= pages[p].cap

----------------------------------------------------------------------------
(* The scheduler when every fetch returns: the scheduling of SpecSlow with *)
(* the last page's fetch returning too, over a store that can raise.       *)

InitLive ==
    /\ now = 0
    /\ pages = [p \in PageIds |-> NoPage]
    /\ versions = <<>>
    /\ changes = <<>>
    /\ notified = {}
    /\ nextId = 1
    /\ sched = InitScheduler(FALSE)
    /\ batch = Idle
    /\ lastPrune = NoPruneYet
    /\ analysed = NotAnalysed
    /\ compared = NotCompared
    /\ writers = <<>>
    /\ env = [pages |-> MaxPages, crawls |-> 0, deletes |-> FALSE, starts |-> 1,
              faults |-> TRUE]

FairLive ==
    /\ FairSlow
    /\ WF_vars(CheckFinish(MaxPages))

SpecLive == InitLive /\ [][NextSlow]_vars /\ FairLive

\* The passes of the loop that can complete within the model's time.
Passes == 0..(MaxTime + 1)

\* C36: while the scheduler runs and every fetch returns, each pass of the
\* loop completes and another follows, and a page that is due is
\* eventually checked to the end, whatever was raised in the checks of
\* other pages or in earlier passes.
C36_DueEventuallyChecked ==
    /\ \A n \in Passes :
          (sched.running /\ sched.cycles = n /\ ~SleepsPastHorizon)
             ~> (sched.cycles > n \/ ~sched.running \/ SleepsPastHorizon)
    /\ \A q \in PageIds :
          (sched.running /\ q \in DuePages(pages, now) /\ batch[q] = "idle")
             ~> (batch[q] \in Outcomes \/ ~sched.running \/ SleepsPastHorizon)

\* A check has raised after its insert, so that its page was never marked
\* as checked; a pass has completed, and in a later pass a check has gone
\* through the versioning decision.
C36_Witness ==
    /\ sched.running
    /\ sched.cycles > 0
    /\ \E p \in PageIds :
          /\ pages[p].last_checked = NoTime
          /\ AllVersions(versions, p) # <<>>
    /\ \E q \in PageIds : batch[q] \in {"skipped", "stored"}

----------------------------------------------------------------------------
(* The version a page points to.                                           *)

\* C37: the current_version_id of a page is null or the id of a stored
\* version of that page; the version a save has inserted and returned is
\* still stored when the save returns.
C37_CurrentVersionExists ==
    \A p \in PageIds :
        pages[p].exists =>
            \/ pages[p].current_version_id = NoId
            \/ \E i \in 1..Len(versions) :
                  /\ versions[i].id = pages[p].current_version_id
                  /\ versions[i].page = p

----------------------------------------------------------------------------
(* Writes for a page whose document has been deleted.                      *)

\* C38: once a page has been deleted, no version of it is inserted and no
\* field of it is written, also by a check of it that was in flight when
\* it was deleted.
C38_NothingWrittenAfterDelete ==
    [][\A p \in PageIds :
          (pages[p].created /\ ~pages[p].exists) =>
              /\ PipelineIds(versions', p) \subseteq PipelineIds(versions, p)
              /\ pages'[p] = pages[p]]_vars

----------------------------------------------------------------------------
(* What a manual crawl reports.                                            *)

\* The text a crawl of page p fetched: that of the version it made current.
CrawledText(vs, pg, p) ==
    vs[CHOOSE i \in FindVersion(vs, pg[p].current_version_id) : TRUE].text

\* C39: a manual crawl of a page that has versions writes a change-log
\* entry and sets last_change_detected (and so reports change_detected)
\* exactly when the text it fetched differs from the text of the latest
\* version the page had before.
C39_CrawlDetectsChange ==
    [][\A p \in PageIds :
          (CrawlPage(p) /\ AllVersions(versions, p) # <<>>) =>
              ((Len(changes') = Len(changes) + 1)
                 <=> (CrawledText(versions', pages', p) # LatestContent(versions, p)))]_vars

====
